---- MODULE Spec2Model ----
(***************************************************************************)
(* Model of ollama_generation_code.py: the connectivity probe, the input   *)
(* loader, the per-word request/retry loop, the response cleaner, the      *)
(* batch loop and the result writer.                                       *)
(*                                                                         *)
(* A text is a sequence of one-character strings, so that the cleaner's    *)
(* regular expressions, str.strip, str.lower and str.startswith are        *)
(* computed character by character as Python computes them.                *)
(***************************************************************************)
EXTENDS Integers, Sequences, FiniteSets, TLC

(***************************************************************************)
(* Characters                                                              *)
(***************************************************************************)

UpperLetters ==
    <<"A","B","C","D","E","F","G","H","I","J","K","L","M",
      "N","O","P","Q","R","S","T","U","V","W","X","Y","Z">>

LowerLetters ==
    <<"a","b","c","d","e","f","g","h","i","j","k","l","m",
      "n","o","p","q","r","s","t","u","v","w","x","y","z">>

\* str.lower() and str.upper() on one character, as tables over the letters.
LowerTable ==
    [c \in {UpperLetters[k] : k \in 1..Len(UpperLetters)} |->
        LowerLetters[CHOOSE k \in 1..Len(UpperLetters) : UpperLetters[k] = c]]

UpperTable ==
    [c \in {LowerLetters[k] : k \in 1..Len(LowerLetters)} |->
        UpperLetters[CHOOSE k \in 1..Len(LowerLetters) : LowerLetters[k] = c]]

LowerChar(c) == IF c \in DOMAIN LowerTable THEN LowerTable[c] ELSE c

UpperChar(c) == IF c \in DOMAIN UpperTable THEN UpperTable[c] ELSE c

\* The ASCII characters \s matches and str.strip() removes: space, tab, line
\* feed, carriage return, form feed, and (written here as the characters
\* themselves, TLA+ having no escape for them) vertical tab \x0b and the
\* separators \x1c, \x1d, \x1e, \x1f.  Texts are ASCII.
IsSpace(c) ==
    c \in {" ", "\t", "\n", "\r", "\f", "", "", "", "", ""}

\* The characters \d matches.
IsDigit(c) == c \in {"0","1","2","3","4","5","6","7","8","9"}

(***************************************************************************)
(* Text primitives                                                         *)
(***************************************************************************)

\* s[i:] for a 1-based position i in 1..Len(s)+1.
Drop(s, i) == SubSeq(s, i, Len(s))

\* The position reached from i by a greedy \s*.
SkipSpace(s, i) ==
    CHOOSE j \in i..(Len(s) + 1) :
        /\ \A k \in i..(j - 1) : IsSpace(s[k])
        /\ (j = Len(s) + 1 \/ ~IsSpace(s[j]))

\* The position reached from i by a greedy \d*.
SkipDigits(s, i) ==
    CHOOSE j \in i..(Len(s) + 1) :
        /\ \A k \in i..(j - 1) : IsDigit(s[k])
        /\ (j = Len(s) + 1 \/ ~IsDigit(s[j]))

\* The last position at or before j that holds no whitespace, 0 when there
\* is none.
RECURSIVE LastNonSpace(_, _)
LastNonSpace(s, j) ==
    IF j >= 1 /\ IsSpace(s[j]) THEN LastNonSpace(s, j - 1) ELSE j

\* str.strip(): leading and trailing whitespace removed.
Strip(s) == SubSeq(s, SkipSpace(s, 1), LastNonSpace(s, Len(s)))

\* str.lower()
Lower(s) == [k \in 1..Len(s) |-> LowerChar(s[k])]

\* str.startswith(p)
StartsWith(s, p) ==
    /\ Len(s) >= Len(p)
    /\ \A k \in 1..Len(p) : s[k] = p[k]

\* '^' + re.escape(word) under re.IGNORECASE: the literal word at the start,
\* letter case ignored.
MatchesWordIC(s, word) ==
    /\ Len(s) >= Len(word)
    /\ \A k \in 1..Len(word) : LowerChar(s[k]) = LowerChar(word[k])

(***************************************************************************)
(* clean_definition                                                        *)
(***************************************************************************)

\* re.sub(r'^' + re.escape(word) + r'\s*:\s*', '', definition, IGNORECASE).strip()
StripWordColon(word, definition) ==
    IF MatchesWordIC(definition, word)
    THEN LET j == SkipSpace(definition, Len(word) + 1)
         IN  IF j <= Len(definition) /\ definition[j] = ":"
             THEN Strip(Drop(definition, SkipSpace(definition, j + 1)))
             ELSE Strip(definition)
    ELSE Strip(definition)

\* re.sub(r'^:\s*', '', definition).strip()
StripLeadingColon(definition) ==
    IF Len(definition) >= 1 /\ definition[1] = ":"
    THEN Strip(Drop(definition, SkipSpace(definition, 2)))
    ELSE Strip(definition)

\* As StripWordNumber, with the test written definition.startswith(word).
StripWordNumberMutant(word, definition) ==
    IF StartsWith(definition, word)
    THEN LET j1 == SkipSpace(definition, Len(word) + 1)
             j2 == SkipDigits(definition, j1)
             j3 == IF j2 <= Len(definition) /\ definition[j2] = "."
                   THEN j2 + 1 ELSE j2
         IN  Strip(Drop(definition, SkipSpace(definition, j3)))
    ELSE definition

\* if definition.lower().startswith(word.lower()):
\*     re.sub(r'^' + re.escape(word) + r'\s*\d*\.?\s*', '', definition, IGNORECASE).strip()
StripWordNumber(word, definition) ==
    IF StartsWith(Lower(definition), Lower(word))
    THEN IF MatchesWordIC(definition, word)
         THEN LET j1 == SkipSpace(definition, Len(word) + 1)
                  j2 == SkipDigits(definition, j1)
                  j3 == IF j2 <= Len(definition) /\ definition[j2] = "."
                        THEN j2 + 1 ELSE j2
              IN  Strip(Drop(definition, SkipSpace(definition, j3)))
         ELSE Strip(definition)
    ELSE definition

\* As StripNumbering, with the pattern written ^(\d*\.?\s*).
StripNumberingMutant(definition) ==
    LET j2 == SkipDigits(definition, 1)
        j3 == IF j2 <= Len(definition) /\ definition[j2] = "."
              THEN j2 + 1 ELSE j2
    IN  Strip(Drop(definition, SkipSpace(definition, j3)))

\* re.sub(r'^(\d+\.?\s*)', '', definition).strip()
StripNumbering(definition) ==
    IF Len(definition) >= 1 /\ IsDigit(definition[1])
    THEN LET j2 == SkipDigits(definition, 1)
             j3 == IF j2 <= Len(definition) /\ definition[j2] = "."
                   THEN j2 + 1 ELSE j2
         IN  Strip(Drop(definition, SkipSpace(definition, j3)))
    ELSE Strip(definition)

\* ['definisi:', 'arti:', 'makna:', 'pengertian:']
unwanted_prefixes ==
    << <<"d","e","f","i","n","i","s","i",":">>,
       <<"a","r","t","i",":">>,
       <<"m","a","k","n","a",":">>,
       <<"p","e","n","g","e","r","t","i","a","n",":">> >>

\* The for loop over unwanted_prefixes, from the k-th prefix on:
\*     if definition.lower().startswith(prefix):
\*         definition = definition[len(prefix):].strip()
RECURSIVE StripPrefixesFrom(_, _)
StripPrefixesFrom(definition, k) ==
    IF k > Len(unwanted_prefixes)
    THEN definition
    ELSE LET prefix == unwanted_prefixes[k]
         IN  IF StartsWith(Lower(definition), prefix)
             THEN StripPrefixesFrom(Strip(Drop(definition, Len(prefix) + 1)), k + 1)
             ELSE StripPrefixesFrom(definition, k + 1)

StripPrefixes(definition) == StripPrefixesFrom(definition, 1)

clean_definition(word, definition) ==
    StripPrefixes(
      StripNumbering(
        StripWordNumber(word,
          StripLeadingColon(
            StripWordColon(word, definition)))))

(***************************************************************************)
(* Configuration                                                           *)
(***************************************************************************)

\* MODEL_NAME = "llama3.2:3b"
MODEL_NAME == "llama3.2:3b"

\* def generate_definition_ollama(word, max_retries=3)
max_retries == 3

(***************************************************************************)
(* check_ollama_connection                                                 *)
(*                                                                         *)
(* A reply to a GET is a record: kind "response" carries the status, and   *)
(* for the tag list whether the body decodes and the model descriptors it  *)
(* holds; kind "connection_error" is requests' ConnectionError; kind       *)
(* "error" is any other exception of the request.                          *)
(***************************************************************************)

\* model.get('name', '')
DescriptorName(model) == IF "name" \in DOMAIN model THEN model.name ELSE ""

\* model_names = [model.get('name', '') for model in models]
ModelNames(models) == [k \in 1..Len(models) |-> DescriptorName(models[k])]

\* As ModelListed, with a case-insensitive comparison.
ModelListedMutant(model_names) ==
    \E k \in 1..Len(model_names) : model_names[k] \in {MODEL_NAME, "LLAMA3.2:3B"}

\* MODEL_NAME in model_names
ModelListed(model_names) == \E k \in 1..Len(model_names) : model_names[k] = MODEL_NAME


\* The value returned, and the number of GET requests issued on the way.
check_ollama_connection(version, tags) ==
    IF version.kind # "response"
    THEN [result |-> FALSE, requests |-> 1]
    ELSE IF version.status # 200
    THEN [result |-> FALSE, requests |-> 1]
    ELSE IF tags.kind # "response"
    THEN [result |-> FALSE, requests |-> 2]
    ELSE IF tags.status # 200
    THEN [result |-> FALSE, requests |-> 2]
    ELSE IF ~tags.decodes
    THEN [result |-> FALSE, requests |-> 2]
    ELSE [result |-> ModelListed(ModelNames(tags.models)), requests |-> 2]

(***************************************************************************)
(* generate_definition_ollama                                              *)
(*                                                                         *)
(* A reply to the POST is a record: kind "response" with a status, whether *)
(* the body decodes as JSON, whether it has a 'response' field and that    *)
(* field's text; kind "timeout" is requests' Timeout; kind "error" is any  *)
(* other exception of the request.                                         *)
(***************************************************************************)

\* str(n) for a one-digit n.
DigitStr(n) == <<"0","1","2","3","4","5","6","7","8","9">>[n + 1]

\* f"Error: Failed to generate definition after {max_retries} attempts"
Sentinel(retries) ==
    <<"E","r","r","o","r",":"," ","F","a","i","l","e","d"," ","t","o"," ",
      "g","e","n","e","r","a","t","e"," ","d","e","f","i","n","i","t","i",
      "o","n"," ","a","f","t","e","r"," ">>
    \o <<DigitStr(retries)>>
    \o <<" ","a","t","t","e","m","p","t","s">>

\* result.get('response', '').strip()
ResponseText(resp) == IF resp.has_text THEN Strip(resp.text) ELSE <<>>

\* The try block reaches `return definition`: the status is 200 and neither
\* response.json() nor the extraction of the text raises.
ReturnsDefinition(resp) ==
    /\ resp.kind = "response"
    /\ resp.status = 200
    /\ resp.decodes

\* As HasNextAttempt, for a loop over range(max_retries + 1).
HasNextAttemptMutant(attempt) == attempt + 1 < max_retries + 1

\* for attempt in range(max_retries): another attempt follows this one.
HasNextAttempt(attempt) == attempt + 1 < max_retries

\* As SleepsAfter, with the test written attempt < max_retries.
SleepsAfterMutant(attempt) == attempt < max_retries

\* if attempt < max_retries - 1: time.sleep(2)
SleepsAfter(attempt) == attempt < max_retries - 1

\* As AfterAttempt, without the `return definition` of the success branch.
AfterAttemptNoReturn(word, attempt, sleeps, resp) ==
    LET slept == IF SleepsAfter(attempt) THEN sleeps + 1 ELSE sleeps
    IN  IF HasNextAttempt(attempt)
        THEN [returned |-> FALSE, definition |-> <<>>,
              attempt |-> attempt + 1, sleeps |-> slept]
        ELSE [returned |-> TRUE, definition |-> Sentinel(max_retries),
              attempt |-> attempt, sleeps |-> slept]

\* As AfterAttempt, with the loop variable in the message in place of
\* max_retries.
AfterAttemptWrongCount(word, attempt, sleeps, resp) ==
    IF ReturnsDefinition(resp)
    THEN [returned |-> TRUE,
          definition |-> clean_definition(word, ResponseText(resp)),
          attempt |-> attempt, sleeps |-> sleeps]
    ELSE LET slept == IF SleepsAfter(attempt) THEN sleeps + 1 ELSE sleeps
         IN  IF HasNextAttempt(attempt)
             THEN [returned |-> FALSE, definition |-> <<>>,
                   attempt |-> attempt + 1, sleeps |-> slept]
             ELSE [returned |-> TRUE, definition |-> Sentinel(attempt),
                   attempt |-> attempt, sleeps |-> slept]

\* One pass of the loop body for the reply resp: whether the call returns,
\* the value it returns, the next value of the loop variable and the
\* number of time.sleep(2) calls made so far.
AfterAttempt(word, attempt, sleeps, resp) ==
    IF ReturnsDefinition(resp)
    THEN [returned |-> TRUE,
          definition |-> clean_definition(word, ResponseText(resp)),
          attempt |-> attempt, sleeps |-> sleeps]
    ELSE LET slept == IF SleepsAfter(attempt) THEN sleeps + 1 ELSE sleeps
         IN  IF HasNextAttempt(attempt)
             THEN [returned |-> FALSE, definition |-> <<>>,
                   attempt |-> attempt + 1, sleeps |-> slept]
             ELSE [returned |-> TRUE, definition |-> Sentinel(max_retries),
                   attempt |-> attempt, sleeps |-> slept]

(***************************************************************************)
(* load_data                                                               *)
(*                                                                         *)
(* word.csv is a record: whether it exists, whether pandas parses it,      *)
(* whether it has the column 'word', and the words of that column (texts   *)
(* that are neither empty nor numerals, which pd.read_csv returns as they  *)
(* are).  reference.csv is a record: whether it exists, whether pandas     *)
(* parses it, its column names, and its rows of cells, a cell being the    *)
(* text between two commas.                                                *)
(*                                                                         *)
(* A value of a loaded table is a record: kind "str" with its text, kind   *)
(* "int" or "float" with its number, or kind "nan".                        *)
(***************************************************************************)

\* reference_def = None
None == [kind |-> "none", text |-> <<>>, number |-> 0]

\* The value pd.read_csv gives for an empty cell.
NaN == [kind |-> "nan", text |-> <<>>, number |-> 0]

\* ref_df = None
NoRefTable == [is_none |-> TRUE, columns |-> <<>>, rows |-> <<>>]

\* The cells pd.read_csv reads as missing (its default na_values).
na_values ==
    {<<>>,
     <<"#","N","/","A">>,
     <<"#","N","/","A"," ","N","/","A">>,
     <<"#","N","A">>,
     <<"-","1",".","#","I","N","D">>,
     <<"-","1",".","#","Q","N","A","N">>,
     <<"-","N","a","N">>,
     <<"-","n","a","n">>,
     <<"1",".","#","I","N","D">>,
     <<"1",".","#","Q","N","A","N">>,
     <<"<","N","A",">">>,
     <<"N","/","A">>,
     <<"N","A">>,
     <<"N","U","L","L">>,
     <<"N","a","N">>,
     <<"N","o","n","e">>,
     <<"n","/","a">>,
     <<"n","a","n">>,
     <<"n","u","l","l">>}

IsNa(cell) == cell \in na_values

\* The cell is a decimal numeral.
IsNumeral(cell) == cell # <<>> /\ \A k \in 1..Len(cell) : IsDigit(cell[k])

DigitValue(c) == CHOOSE n \in 0..9 : DigitStr(n) = c

\* The number a decimal numeral denotes.
RECURSIVE NumeralValue(_)
NumeralValue(cell) ==
    IF cell = <<>>
    THEN 0
    ELSE 10 * NumeralValue(SubSeq(cell, 1, Len(cell) - 1)) + DigitValue(cell[Len(cell)])

\* The values pd.read_csv gives for the cells of one column: a missing cell
\* is NaN; when every other cell is a numeral the column is numeric (integer
\* without a missing cell, floating point with one); otherwise every other
\* cell is the string it holds.
ParseColumn(cells) ==
    LET present == {k \in 1..Len(cells) : ~IsNa(cells[k])}
        numeric == \A k \in present : IsNumeral(cells[k])
        kind    == IF present = 1..Len(cells) THEN "int" ELSE "float"
    IN  [k \in 1..Len(cells) |->
            IF k \notin present
            THEN NaN
            ELSE IF numeric
            THEN [kind |-> kind, text |-> <<>>, number |-> NumeralValue(cells[k])]
            ELSE [kind |-> "str", text |-> cells[k], number |-> 0]]

\* pd.read_csv('reference.csv'): the table, its columns parsed one by one.
read_csv(file) ==
    LET ncols  == Len(file.columns)
        nrows  == Len(file.rows)
        parsed == [c \in 1..ncols |->
                      ParseColumn([k \in 1..nrows |-> file.rows[k][c]])]
    IN  [is_none |-> FALSE,
         columns |-> file.columns,
         rows    |-> [k \in 1..nrows |-> [c \in 1..ncols |-> parsed[c][k]]]]

\* The pair returned: ok is FALSE for (None, None).  The 'word' column of
\* word.csv is read inside the try block, so its absence is caught there;
\* the columns of reference.csv are not touched by load_data.
load_data(word_csv, reference_csv) ==
    IF ~word_csv.exists \/ ~word_csv.parses \/ ~word_csv.has_columns
    THEN [ok |-> FALSE, words_list |-> <<>>, ref_df |-> NoRefTable]
    ELSE IF ~reference_csv.exists \/ ~reference_csv.parses
    THEN [ok |-> FALSE, words_list |-> <<>>, ref_df |-> NoRefTable]
    ELSE [ok |-> TRUE, words_list |-> word_csv.rows,
          ref_df |-> read_csv(reference_csv)]

(***************************************************************************)
(* generate_definitions                                                    *)
(***************************************************************************)

\* The table has a column of that name; ref_df[name] raises KeyError when
\* it has not.
HasColumn(df, name) == \E c \in 1..Len(df.columns) : df.columns[c] = name

\* The value of row k in the column of that name.
Cell(df, k, name) ==
    df.rows[k][CHOOSE c \in 1..Len(df.columns) : df.columns[c] = name]

\* value == word, for a table value and a word of the list.
EqualsWord(value, word) == value.kind = "str" /\ value.text = word

\* match = ref_df[ref_df[ref_word_column] == word]: the indices of the
\* matching rows, in table order.
MatchingRows(ref_df, word) ==
    {k \in 1..Len(ref_df.rows) : EqualsWord(Cell(ref_df, k, "word"), word)}

\* reference_def = None
\* if ref_df is not None:
\*     match = ref_df[ref_df[ref_word_column] == word]
\*     if not match.empty: reference_def = match.iloc[0][ref_def_column]
\* raised: a KeyError, at line 191 for a table without the column 'word', at
\* line 193 for a table without the column 'definition' and a word that has
\* a matching row.
ReferenceLookup(ref_df, word) ==
    IF ref_df.is_none
    THEN [raised |-> FALSE, value |-> None]
    ELSE IF ~HasColumn(ref_df, "word")
    THEN [raised |-> TRUE, value |-> None]
    ELSE LET match == MatchingRows(ref_df, word)
         IN  IF match = {}
             THEN [raised |-> FALSE, value |-> None]
             ELSE IF ~HasColumn(ref_df, "definition")
             THEN [raised |-> TRUE, value |-> None]
             ELSE [raised |-> FALSE,
                   value |-> Cell(ref_df,
                                  CHOOSE k \in match : \A m \in match : k <= m,
                                  "definition")]

\* `if reference_def:` is Python truthiness: None, the empty string and zero
\* are false; NaN is true.
Truthy(reference_def) ==
    IF reference_def.kind = "none" THEN FALSE
    ELSE IF reference_def.kind = "nan" THEN TRUE
    ELSE IF reference_def.kind = "str" THEN reference_def.text # <<>>
    ELSE reference_def.number # 0

\* The record built for one word.
BuildResult(word, definition, reference_def) ==
    IF Truthy(reference_def)
    THEN [word |-> word, generated_definition |-> definition,
          reference_definition |-> reference_def]
    ELSE [word |-> word, generated_definition |-> definition]

\* return pd.DataFrame(results): one row per record, in order, under the
\* union of the records' keys; a record without reference_definition has
\* NaN there, and a column of numbers with a NaN is floating point.  No
\* record gives no column.
DataFrame(results) ==
    LET has(k)   == "reference_definition" \in DOMAIN results[k]
        with_ref == \E k \in 1..Len(results) : has(k)
        col      == [k \in 1..Len(results) |->
                        IF has(k) THEN results[k].reference_definition ELSE NaN]
        floating == /\ \A k \in 1..Len(results) : col[k].kind \in {"int", "float", "nan"}
                    /\ \E k \in 1..Len(results) : col[k].kind \in {"float", "nan"}
        value(k) == IF floating /\ col[k].kind = "int"
                    THEN [col[k] EXCEPT !.kind = "float"]
                    ELSE col[k]
    IN  [columns |-> IF results = <<>> THEN <<>>
                     ELSE IF with_ref
                     THEN <<"word", "generated_definition", "reference_definition">>
                     ELSE <<"word", "generated_definition">>,
         rows    |-> [k \in 1..Len(results) |->
                        IF with_ref
                        THEN [word |-> results[k].word,
                              generated_definition |-> results[k].generated_definition,
                              reference_definition |-> value(k)]
                        ELSE results[k]]]

\* As AppendResult, with results.insert(0, result).
AppendResultMutant(results, result) == <<result>> \o results

\* results.append(result)
AppendResult(results, result) == Append(results, result)

(***************************************************************************)
(* Bounds and input domains                                                *)
(***************************************************************************)

\* The longest word list.
MaxWords == 2
\* The most rows of the reference table.
MaxRef == 2
\* The most model descriptors in the tag list.
MaxModels == 2
\* The most pieces a raw text of the cleaner run is made of.
MaxChunks == 3

\* All sequences over S of length at most n.
SeqsUpTo(S, n) == UNION {[1..m -> S] : m \in 0..n}

Air == <<"a","i","r">>
Api == <<"a","p","i">>

\* The words of word.csv.
Words == {Air, Api}

ZatCair == <<"z","a","t"," ","c","a","i","r">>

\* Definition cells of reference.csv: the numeral 0 and a text.
RefCells == {<<"0">>, ZatCair}

\* Rows of reference.csv: a word may have several rows.  No row has the word
\* Api.
RefRows == {<<Air, cell>> : cell \in RefCells}

\* Rows of a reference.csv with an empty definition cell: alone, and after
\* a numeral.
EmptyCellRows ==
    {<< <<Air, <<>> >> >>,
     << <<Air, <<"0">> >>, <<Air, <<>> >> >>}

WordFiles ==
    {[exists |-> FALSE, parses |-> FALSE, has_columns |-> FALSE, rows |-> <<>>],
     [exists |-> TRUE, parses |-> FALSE, has_columns |-> FALSE, rows |-> <<>>],
     [exists |-> TRUE, parses |-> TRUE, has_columns |-> FALSE, rows |-> <<>>]}
    \cup {[exists |-> TRUE, parses |-> TRUE, has_columns |-> TRUE, rows |-> w] :
             w \in SeqsUpTo(Words, MaxWords)}

\* reference.csv: missing, unreadable, with its two columns and any rows
\* (an empty definition cell among them), or with one row under a column of
\* another name (such a file still loads).
ReferenceFiles ==
    {[exists |-> FALSE, parses |-> FALSE, columns |-> <<>>, rows |-> <<>>],
     [exists |-> TRUE, parses |-> FALSE, columns |-> <<>>, rows |-> <<>>]}
    \cup {[exists |-> TRUE, parses |-> TRUE, columns |-> <<"word", "definition">>,
           rows |-> r] : r \in SeqsUpTo(RefRows, MaxRef) \cup EmptyCellRows}
    \cup {[exists |-> TRUE, parses |-> TRUE, columns |-> cols,
           rows |-> << <<Air, ZatCair>> >>] :
             cols \in {<<"word", "arti">>, <<"kata", "definition">>}}

\* Replies to GET /api/version.
VersionReplies ==
    {[kind |-> "response", status |-> 200],
     [kind |-> "response", status |-> 503],
     [kind |-> "connection_error", status |-> 0],
     [kind |-> "error", status |-> 0]}

\* Model descriptors of the tag list; one has no 'name'.
Descriptors ==
    {[name |-> "llama3.2:3b"], [name |-> "llama3.2:1b"],
     [name |-> "LLAMA3.2:3B"], [size |-> 2]}

\* Replies to GET /api/tags.
TagsReplies ==
    {[kind |-> "response", status |-> 200, decodes |-> TRUE, models |-> m] :
        m \in SeqsUpTo(Descriptors, MaxModels)}
    \cup
    {[kind |-> "response", status |-> 200, decodes |-> FALSE, models |-> <<>>],
     [kind |-> "response", status |-> 500, decodes |-> FALSE, models |-> <<>>],
     [kind |-> "connection_error", status |-> 0, decodes |-> FALSE, models |-> <<>>],
     [kind |-> "error", status |-> 0, decodes |-> FALSE, models |-> <<>>]}

\* The texts the model server generates: " Air: 2. zat\n", which echoes the
\* word for Air and not for Api, and the very text of the sentinel.
GeneratedTexts ==
    {<<" ","A","i","r",":"," ","2","."," ","z","a","t","\n">>,
     Sentinel(max_retries)}

NoReply ==
    [kind |-> "none", status |-> 0, decodes |-> FALSE, has_text |-> FALSE,
     text |-> <<>>]

\* Replies to POST /api/generate.
GenerateReplies ==
    {[kind |-> "response", status |-> 200, decodes |-> TRUE, has_text |-> TRUE,
      text |-> t] : t \in GeneratedTexts}
    \cup
    {[kind |-> "response", status |-> 200, decodes |-> TRUE, has_text |-> FALSE,
      text |-> <<>>],
     [kind |-> "response", status |-> 200, decodes |-> FALSE, has_text |-> FALSE,
      text |-> <<>>],
     [kind |-> "response", status |-> 204, decodes |-> FALSE, has_text |-> FALSE,
      text |-> <<>>],
     [kind |-> "response", status |-> 500, decodes |-> FALSE, has_text |-> FALSE,
      text |-> <<>>],
     [kind |-> "timeout", status |-> 0, decodes |-> FALSE, has_text |-> FALSE,
      text |-> <<>>],
     [kind |-> "error", status |-> 0, decodes |-> FALSE, has_text |-> FALSE,
      text |-> <<>>]}

(***************************************************************************)
(* State                                                                   *)
(***************************************************************************)

VARIABLES
    pc,             \* position of main(): probe, load, attempt, record, write,
                    \* done, aborted (main returned early), crashed (an
                    \* exception left main)
    connected,      \* value check_ollama_connection returned
    loaded,         \* load_data returned a word list, not None
    words_list,     \* the loaded words
    ref_df,         \* the loaded reference table
    i,              \* 1-based index of the word being processed
    attempt,        \* loop variable of generate_definition_ollama
    last,           \* reply to the latest POST of the current call
    requests,       \* POSTs issued by the current call
    sleeps,         \* time.sleep(2) calls of the current call
    definition,     \* value the current call returned
    results,        \* records appended so far
    total_requests, \* POSTs issued by the run
    output,         \* the table written to generated_definitions_ollama.csv
    written,        \* the output file exists
    probe_version,  \* probe run: reply to the version request
    probe_tags,     \* probe run: reply to the tag-list request
    probe_out,      \* probe run: what check_ollama_connection did
    cword,          \* cleaner run: the word
    craw,           \* cleaner run: the raw text
    cout1,          \* cleaner run: the text cleaned once
    cout2,          \* cleaner run: the text cleaned twice
    cpc             \* cleaner run: input, once, twice

mainVars ==
    <<pc, connected, loaded, words_list, ref_df, i, attempt, last, requests,
      sleeps, definition, results, total_requests, output, written>>
probeVars == <<probe_version, probe_tags, probe_out>>
cleanVars == <<cword, craw, cout1, cout2, cpc>>
vars == <<mainVars, probeVars, cleanVars>>

NoOutput == [columns |-> <<>>, rows |-> <<>>]
ProbePending == [done |-> FALSE, result |-> FALSE, requests |-> 0]

MainIdle ==
    /\ pc = "idle"
    /\ connected = FALSE
    /\ loaded = FALSE
    /\ words_list = <<>>
    /\ ref_df = NoRefTable
    /\ i = 0
    /\ attempt = 0
    /\ last = NoReply
    /\ requests = 0
    /\ sleeps = 0
    /\ definition = <<>>
    /\ results = <<>>
    /\ total_requests = 0
    /\ output = NoOutput
    /\ written = FALSE

ProbeIdle ==
    /\ probe_version = [kind |-> "none", status |-> 0]
    /\ probe_tags = [kind |-> "none", status |-> 0, decodes |-> FALSE, models |-> <<>>]
    /\ probe_out = ProbePending

CleanIdle ==
    /\ cword = <<>>
    /\ craw = <<>>
    /\ cout1 = <<>>
    /\ cout2 = <<>>
    /\ cpc = "idle"

(***************************************************************************)
(* main                                                                    *)
(***************************************************************************)

Init ==
    /\ pc = "probe"
    /\ connected = FALSE
    /\ loaded = FALSE
    /\ words_list = <<>>
    /\ ref_df = NoRefTable
    /\ i = 0
    /\ attempt = 0
    /\ last = NoReply
    /\ requests = 0
    /\ sleeps = 0
    /\ definition = <<>>
    /\ results = <<>>
    /\ total_requests = 0
    /\ output = NoOutput
    /\ written = FALSE
    /\ ProbeIdle
    /\ CleanIdle

\* As ProceedsAfterCheck, with the result of the check ignored.
ProceedsAfterCheckMutant(check) == TRUE

\* if not check_ollama_connection(): return
ProceedsAfterCheck(check) == check

\* if words_list is None: return
ProceedsAfterLoad(data) == data.ok

\* main() up to the connectivity check.
Probe ==
    /\ pc = "probe"
    /\ \E version \in VersionReplies, tags \in TagsReplies :
          LET check == check_ollama_connection(version, tags).result
          IN  /\ connected' = check
              /\ pc' = IF ProceedsAfterCheck(check) THEN "load" ELSE "aborted"
    /\ UNCHANGED <<loaded, words_list, ref_df, i, attempt, last, requests, sleeps,
                   definition, results, total_requests, output, written>>
    /\ UNCHANGED <<probeVars, cleanVars>>

\* main() from load_data() to the entry of generate_definitions: the batch
\* loop starts at the first word, or is skipped for an empty list.
LoadData ==
    /\ pc = "load"
    /\ \E word_csv \in WordFiles, reference_csv \in ReferenceFiles :
          LET data == load_data(word_csv, reference_csv)
          IN  /\ loaded' = data.ok
              /\ words_list' = data.words_list
              /\ ref_df' = data.ref_df
              /\ IF ~ProceedsAfterLoad(data)
                 THEN pc' = "aborted" /\ i' = i
                 ELSE IF Len(data.words_list) = 0
                 THEN pc' = "write" /\ i' = i
                 ELSE pc' = "attempt" /\ i' = 1
    /\ UNCHANGED <<connected, attempt, last, requests, sleeps, definition,
                   results, total_requests, output, written>>
    /\ UNCHANGED <<probeVars, cleanVars>>

\* One pass of the retry loop of generate_definition_ollama(words_list[i]):
\* the POST, its reply, and either the return or the sleep before the next
\* pass.
Attempt ==
    /\ pc = "attempt"
    /\ \E resp \in GenerateReplies :
          /\ last' = resp
          /\ requests' = requests + 1
          /\ total_requests' = total_requests + 1
          /\ \E after \in {AfterAttempt(words_list[i], attempt, sleeps, resp)} :
              /\ attempt' = after.attempt
              /\ sleeps' = after.sleeps
              /\ definition' = after.definition
              /\ pc' = IF after.returned THEN "record" ELSE "attempt"
    /\ UNCHANGED <<connected, loaded, words_list, ref_df, i, results, output,
                   written>>
    /\ UNCHANGED <<probeVars, cleanVars>>

\* The rest of the batch loop body for words_list[i]: the reference lookup
\* (a KeyError leaves generate_definitions and main), the record, the
\* append, time.sleep(0.5), and the step to the next word or out of the
\* loop.
Record ==
    /\ pc = "record"
    /\ \E lookup \in {ReferenceLookup(ref_df, words_list[i])} :
          IF lookup.raised
          THEN /\ pc' = "crashed"
               /\ UNCHANGED <<i, attempt, last, requests, sleeps, definition,
                              results>>
          ELSE /\ results' = AppendResult(results,
                                 BuildResult(words_list[i], definition,
                                             lookup.value))
               /\ attempt' = 0
               /\ last' = NoReply
               /\ requests' = 0
               /\ sleeps' = 0
               /\ definition' = <<>>
               /\ IF i < Len(words_list)
                  THEN pc' = "attempt" /\ i' = i + 1
                  ELSE pc' = "write" /\ i' = i
    /\ UNCHANGED <<connected, loaded, words_list, ref_df, total_requests, output,
                   written>>
    /\ UNCHANGED <<probeVars, cleanVars>>

\* return pd.DataFrame(results) and, in main,
\* results_df.to_csv(output_filename, index=False): the file is written, or
\* the write raises and the exception leaves main.
Write ==
    /\ pc = "write"
    /\ \E ok \in BOOLEAN :
          IF ok
          THEN pc' = "done" /\ output' = DataFrame(results) /\ written' = TRUE
          ELSE pc' = "crashed" /\ output' = output /\ written' = written
    /\ UNCHANGED <<connected, loaded, words_list, ref_df, i, attempt, last,
                   requests, sleeps, definition, results, total_requests>>
    /\ UNCHANGED <<probeVars, cleanVars>>

Next == Probe \/ LoadData \/ Attempt \/ Record \/ Write

Spec == Init /\ [][Next]_vars

\* The steps the code itself brings to an end: the POST of an attempt is
\* issued with timeout=60 and followed by a bounded sleep, and loading,
\* recording and writing are local.  The two GETs of the connectivity check
\* are issued without a timeout and may never return, so nothing forces the
\* Probe step.
FairSpec == Spec /\ WF_vars(LoadData \/ Attempt \/ Record \/ Write)

(***************************************************************************)
(* check_ollama_connection on its own: every pair of replies               *)
(***************************************************************************)

InitProbe ==
    /\ MainIdle
    /\ CleanIdle
    /\ probe_version \in VersionReplies
    /\ probe_tags \in TagsReplies
    /\ probe_out = ProbePending

ProbeCall ==
    /\ ~probe_out.done
    /\ \E out \in {check_ollama_connection(probe_version, probe_tags)} :
          probe_out' = [done |-> TRUE, result |-> out.result,
                        requests |-> out.requests]
    /\ UNCHANGED <<probe_version, probe_tags>>
    /\ UNCHANGED <<mainVars, cleanVars>>

NextProbe == ProbeCall

SpecProbe == InitProbe /\ [][NextProbe]_vars

(***************************************************************************)
(* clean_definition on its own: raw texts put together from pieces         *)
(***************************************************************************)

Upper(s) == [k \in 1..Len(s) |-> UpperChar(s[k])]

\* The words of the cleaner run: "es", "Air", and " es" as a word.csv cell
\* with a leading blank gives it.
CleanWords == {<<"e","s">>, <<"A","i","r">>, <<" ","e","s">>}

\* The pieces of a raw text for the word w: the word in its own, upper and
\* lower case, punctuation, a blank, a form feed, numbering, a lead-in
\* phrase and a body.
Chunks(w) ==
    {w, Upper(w), Lower(w)}
    \cup {<<":">>, <<":"," ">>, <<" ">>, <<"\f">>, <<"2">>, <<".">>,
          <<" ","1","2","."," ">>,
          <<"A","r","t","i",":">>,
          <<"z","a","t">>}

RECURSIVE Flatten(_)
Flatten(chunks) ==
    IF chunks = <<>> THEN <<>> ELSE Head(chunks) \o Flatten(Tail(chunks))

RawTexts(w) == {Flatten(chunks) : chunks \in SeqsUpTo(Chunks(w), MaxChunks)}

InitClean ==
    /\ MainIdle
    /\ ProbeIdle
    /\ cword \in CleanWords
    /\ craw \in RawTexts(cword)
    /\ cout1 = <<>>
    /\ cout2 = <<>>
    /\ cpc = "input"

CleanOnce ==
    /\ cpc = "input"
    /\ cout1' = clean_definition(cword, craw)
    /\ cpc' = "once"
    /\ UNCHANGED <<cword, craw, cout2>>
    /\ UNCHANGED <<mainVars, probeVars>>

CleanTwice ==
    /\ cpc = "once"
    /\ cout2' = clean_definition(cword, cout1)
    /\ cpc' = "twice"
    /\ UNCHANGED <<cword, craw, cout1>>
    /\ UNCHANGED <<mainVars, probeVars>>

NextClean == CleanOnce \/ CleanTwice

SpecClean == InitClean /\ [][NextClean]_vars

(***************************************************************************)
(* Properties                                                              *)
(***************************************************************************)

\* "Error: Failed to generate definition after 3 attempts"
SentinelText ==
    <<"E","r","r","o","r",":"," ","F","a","i","l","e","d"," ","t","o"," ",
      "g","e","n","e","r","a","t","e"," ","d","e","f","i","n","i","t","i",
      "o","n"," ","a","f","t","e","r"," ","3"," ","a","t","t","e","m","p",
      "t","s">>

\* The reply is an HTTP 200.
IsHttpSuccess(reply) == reply.kind = "response" /\ reply.status = 200

\* The reply is an HTTP 200 whose body decodes, so that its text (the empty
\* text when the field is missing) can be extracted.
IsUsableSuccess(reply) == IsHttpSuccess(reply) /\ reply.decodes

\* The text of a usable reply, stripped and cleaned for the current word.
CleanedReply(reply) ==
    clean_definition(words_list[i], IF reply.has_text THEN Strip(reply.text) ELSE <<>>)

\* The run has ended: the output is written, main returned early, or an
\* unhandled exception ended the process.
Halted == pc \in {"done", "aborted", "crashed"}

\* C1: generate_definitions returns exactly one record per input word, the
\* k-th record carrying the k-th word: while the loop runs the records are
\* those of the words already processed, in input order, and when it has
\* returned there are as many records as words.
RecordPerWordInOrder ==
    /\ Len(results) <= Len(words_list)
    /\ \A k \in 1..Len(results) : results[k].word = words_list[k]
    /\ (pc \in {"attempt", "record"} => Len(results) = i - 1)
    /\ (pc \in {"write", "done"} => Len(results) = Len(words_list))

\* C1 happens: the loop has returned for two different words, the first of
\* which exhausted its attempts.
RecordPerWordWitness ==
    /\ pc = "write"
    /\ Len(words_list) = 2
    /\ words_list[1] # words_list[2]
    /\ results[1].generated_definition = SentinelText
    /\ results[2].generated_definition # SentinelText

\* C2: when the third attempt for a word fails as the two before it did,
\* whatever the kinds of failure, the call returns the sentinel and raises
\* nothing; the word's record carries the sentinel, and the loop goes on to
\* the next word (when the reference lookup for the word raises nothing).
SentinelAfterExhaustion ==
    /\ [][(pc = "attempt" /\ requests = max_retries - 1 /\ ~IsUsableSuccess(last'))
            => (/\ pc' = "record"
                /\ definition' = SentinelText
                /\ requests' = max_retries)]_vars
    /\ [][(/\ pc = "record"
            /\ definition = SentinelText
            /\ ~ReferenceLookup(ref_df, words_list[i]).raised)
            => (/\ Len(results') = Len(results) + 1
                /\ results'[Len(results')].word = words_list[i]
                /\ results'[Len(results')].generated_definition = SentinelText
                /\ (i < Len(words_list) => pc' = "attempt" /\ i' = i + 1 /\ requests' = 0)
                /\ (i = Len(words_list) => pc' = "write"))]_vars

\* C2 happens: the first word's record carries the sentinel and the second
\* word is being requested.
SentinelWitness ==
    /\ pc = "attempt"
    /\ i = 2
    /\ requests = 1
    /\ results[1].generated_definition = SentinelText

\* A reply with a status of the 2xx class.
IsHttp2xx(reply) == reply.kind = "response" /\ reply.status \in 200..299

\* C3 as stated: every HTTP success makes the call return the cleaned text
\* of that reply at once, never the sentinel, after exactly as many requests
\* as attempts.
ReturnsOnEveryHttpSuccess ==
    IsHttp2xx(last) =>
        /\ pc \in {"record", "crashed"}
        /\ definition = CleanedReply(last)
        /\ definition # SentinelText
        /\ requests = attempt + 1

\* C3 amended: an HTTP 200 whose body decodes makes the call return the
\* cleaned text of that reply at once: no further request follows it, the
\* value returned is that cleaned text whatever it is (the sentinel only
\* when the reply's own text cleans to it), and a success on attempt k
\* comes after exactly k requests.  (Any other status, and a 200 whose body
\* does not decode, is handled as a failed attempt.)
ReturnsOnUsableSuccess ==
    /\ (pc = "attempt" => ~IsUsableSuccess(last))
    /\ (IsUsableSuccess(last) =>
          /\ pc \in {"record", "crashed"}
          /\ definition = CleanedReply(last)
          /\ requests = attempt + 1
          /\ requests <= max_retries)

\* C3 happens: the third attempt succeeded, after three requests, with the
\* echoed word cleaned off.
ReturnsOnSuccessWitness ==
    /\ pc = "record"
    /\ IsUsableSuccess(last)
    /\ requests = 3
    /\ words_list[i] = Air
    /\ definition = <<"z","a","t">>

\* C4: the 2-second sleep follows every failed attempt but the last one and
\* nothing else: while the loop runs there were as many sleeps as requests;
\* a call that returned a definition on attempt k slept k-1 times; a call
\* that exhausted its attempts slept max_retries - 1 = 2 times.
SleepOnlyBetweenAttempts ==
    /\ (pc = "attempt" => sleeps = requests)
    /\ (pc \in {"record", "crashed"} /\ IsUsableSuccess(last) => sleeps = requests - 1)
    /\ (pc \in {"record", "crashed"} /\ requests > 0 /\ ~IsUsableSuccess(last) =>
            requests = max_retries /\ sleeps = 2)

\* C4 happens: a call has exhausted its attempts.
SleepWitness ==
    /\ pc = "record"
    /\ ~IsUsableSuccess(last)
    /\ requests = 3
    /\ sleeps = 2

\* C5 as stated: for a reference table with its two columns, a record has a
\* reference_definition exactly when some row of the table has its word,
\* and the field is then the definition of the first such row.
ReferenceIffMatch ==
    HasColumn(ref_df, "word") /\ HasColumn(ref_df, "definition") =>
        \A k \in 1..Len(results) :
            LET match == {m \in 1..Len(ref_df.rows) :
                             /\ Cell(ref_df, m, "word").kind = "str"
                             /\ Cell(ref_df, m, "word").text = results[k].word}
            IN  /\ ("reference_definition" \in DOMAIN results[k]) <=> (match # {})
                /\ match # {} =>
                     results[k].reference_definition =
                         Cell(ref_df, CHOOSE m \in match : \A n \in match : m <= n,
                              "definition")

\* C6: a generation request is issued, and the output file written, only
\* after the connectivity check returned true and the inputs were loaded; a
\* run that returned early issued no request and wrote nothing; the file is
\* written only when every word has its record.
NoWorkBeforeChecks ==
    /\ (total_requests > 0 \/ written \/ results # <<>>) => (connected /\ loaded)
    /\ (~connected => pc \in {"probe", "aborted"})
    /\ (connected /\ ~loaded => pc \in {"load", "aborted"})
    /\ (pc = "aborted" => total_requests = 0 /\ ~written)
    /\ (written =>
          /\ pc = "done"
          /\ Len(results) = Len(words_list)
          /\ output = DataFrame(results))

\* C6 happens: the server answered, loading failed and main returned.
NoWorkWitness ==
    /\ pc = "aborted"
    /\ connected
    /\ ~loaded

\* C7: check_ollama_connection returns true exactly when both requests
\* returned 200 and some listed model has exactly the configured name; it
\* returns false for every exception; the tag list is requested only after a
\* 200 to the version request.
ProbeResult ==
    probe_out.done =>
        /\ probe_out.result <=>
              /\ IsHttpSuccess(probe_version)
              /\ IsHttpSuccess(probe_tags)
              /\ probe_tags.decodes
              /\ \E k \in 1..Len(probe_tags.models) :
                    /\ "name" \in DOMAIN probe_tags.models[k]
                    /\ probe_tags.models[k].name = "llama3.2:3b"
        /\ probe_out.requests = (IF IsHttpSuccess(probe_version) THEN 2 ELSE 1)

\* C7 happens: the probe returned true for a list whose second model is the
\* configured one.
ProbeWitness ==
    /\ probe_out.done
    /\ probe_out.result
    /\ Len(probe_tags.models) = 2
    /\ probe_tags.models[1] = [size |-> 2]

\* C8 as stated: cleaning a second time changes nothing, for every text.
CleanIdempotent == cpc = "twice" => cout2 = cout1

\* A text that carries no artifact for the word w: no surrounding
\* whitespace, and at its start neither the word (in any letter case), a
\* colon, a digit nor a lead-in phrase (in any letter case).
AlreadyClean(w, s) ==
    /\ s # <<>> => ~IsSpace(s[1]) /\ ~IsSpace(s[Len(s)])
    /\ s # <<>> => s[1] # ":" /\ ~IsDigit(s[1])
    /\ ~(Len(s) >= Len(w) /\ \A k \in 1..Len(w) : LowerChar(s[k]) = LowerChar(w[k]))
    /\ \A n \in 1..Len(unwanted_prefixes) :
          ~(/\ Len(s) >= Len(unwanted_prefixes[n])
            /\ \A k \in 1..Len(unwanted_prefixes[n]) :
                  LowerChar(s[k]) = unwanted_prefixes[n][k])

\* C8 amended: cleaning is idempotent for already-clean text: a text that
\* carries no artifact is returned unchanged by the first cleaning and by
\* the second.
CleanIdempotentOnClean ==
    AlreadyClean(cword, craw) =>
        /\ (cpc \in {"once", "twice"} => cout1 = craw)
        /\ (cpc = "twice" => cout2 = cout1)

\* C8 happens: the already-clean text "zat: zat" was cleaned twice.
CleanIdempotentWitness ==
    /\ cpc = "twice"
    /\ AlreadyClean(cword, craw)
    /\ craw = <<"z","a","t",":"," ","z","a","t">>
    /\ cout2 = craw

\* The raw text is the word w in some letter case, ": ", and a body.
IsColonEcho(w, s) ==
    /\ Len(s) >= Len(w) + 2
    /\ \A k \in 1..Len(w) : LowerChar(s[k]) = LowerChar(w[k])
    /\ s[Len(w) + 1] = ":"
    /\ s[Len(w) + 2] = " "

ColonEchoBody(w, s) == SubSeq(s, Len(w) + 3, Len(s))

\* The raw text is the word w in some letter case, " ", a numeral, ". ", and
\* a body.
IsNumberEcho(w, s) ==
    /\ Len(s) >= Len(w) + 4
    /\ \A k \in 1..Len(w) : LowerChar(s[k]) = LowerChar(w[k])
    /\ s[Len(w) + 1] = " "
    /\ IsDigit(s[Len(w) + 2])
    /\ LET j == SkipDigits(s, Len(w) + 2)
       IN  j + 1 <= Len(s) /\ s[j] = "." /\ s[j + 1] = " "

NumberEchoBody(w, s) == SubSeq(s, SkipDigits(s, Len(w) + 2) + 2, Len(s))

\* Cleaning leaves the body unchanged.
IsFixed(w, b) == clean_definition(w, b) = b

EchoRemoved ==
    cpc \in {"once", "twice"} =>
        /\ (IsColonEcho(cword, craw) /\ IsFixed(cword, ColonEchoBody(cword, craw))
              => cout1 = ColonEchoBody(cword, craw))
        /\ (IsNumberEcho(cword, craw) /\ IsFixed(cword, NumberEchoBody(cword, craw))
              => cout1 = NumberEchoBody(cword, craw))

\* C9 as stated: for every word, a leading echo of the word in any letter
\* case, followed by ": " or by " n. ", is removed down to the body.
EchoRemovedForEveryWord == EchoRemoved

\* C9 amended: the same, for every word that starts with neither whitespace
\* nor a colon.  (The first two steps strip leading whitespace and a
\* leading colon from the text, after which such a word no longer matches.)
EchoRemovedForPlainWords ==
    (cword # <<>> => ~IsSpace(cword[1]) /\ cword[1] # ":") => EchoRemoved

\* C9 happens: for the word "Air" the raw text "AIR 12. zat" was cleaned to
\* "zat".
EchoRemovedWitness ==
    /\ cpc = "once"
    /\ cword = <<"A","i","r">>
    /\ craw = <<"A","I","R"," ","1","2","."," ","z","a","t">>
    /\ cout1 = <<"z","a","t">>

\* C10 as stated: every run reaches the written-output state or an aborted
\* state, each word gets at least one and at most max_retries = 3 requests,
\* and the run issues at most 3 * N requests for its N words.
RunReachesOutputOrAbort ==
    /\ <>(pc \in {"done", "aborted"})
    /\ [](requests <= max_retries)
    /\ [](pc = "record" => requests >= 1)
    /\ [](total_requests <= 3 * Len(words_list))

\* C10 amended: every run whose connectivity check has returned halts, with
\* the output written, with an early return of main, or with an unhandled
\* exception (the KeyError of a reference lookup, a failed write); each word
\* gets at least one and at most max_retries = 3 requests, and the run
\* issues at most 3 * N requests for its N words.
RunTerminates ==
    /\ (pc # "probe") ~> Halted
    /\ [](requests <= max_retries)
    /\ [](pc = "record" => requests >= 1)
    /\ [](total_requests <= 3 * Len(words_list))

\* C10 happens: a run over a longest list wrote its output after three
\* requests for every word.
RunTerminatesWitness ==
    /\ pc = "done"
    /\ Len(words_list) = MaxWords
    /\ total_requests = 3 * MaxWords

====
